---- MODULE Spec2Model ----
(***************************************************************************)
(* A model of static/js/main.js (the Brainchild namespace): the debounce   *)
(* wrapper, the toast stack, the confirmation modal, the button loading    *)
(* toggle, field and form validation, image-file validation, HTML escaping *)
(* and the image-upload preview.                                           *)
(*                                                                         *)
(* The browser is a single-threaded event loop.  Every action below is one *)
(* task of that loop: a listener run to completion, a timer callback, or   *)
(* an asynchronous completion.  Time is in milliseconds.  A timer set with *)
(* setTimeout(f, d) at time t is kept in `timers` with deadline t + d; the *)
(* clock never passes the deadline of a pending timer, so a callback runs  *)
(* exactly at its deadline (the idealised clock the timing statements of   *)
(* the documentation are written against).                                 *)
(*                                                                         *)
(* Strings whose characters matter (field values, text to escape) are      *)
(* sequences of one-character strings; other strings are TLA+ strings.     *)
(***************************************************************************)
EXTENDS Integers, Sequences, FiniteSets, TLC

VARIABLES
    now,            \* the event loop's clock, ms
    timers,         \* pending setTimeout entries: [id, at, kind, arg]
    nextTimerId,    \* the id the next setTimeout returns
    dbWait,         \* debounce: the `wait` the wrapper was built with
    dbTimeout,      \* debounce: the closure variable `timeout` (0: undefined)
    dbLog,          \* debounce: calls of the wrapper and invocations of func
    toastContainer, \* whether #toast-container exists in the page
    toasts,         \* the toast elements created so far, in creation order
    modals,         \* the confirmation modals created so far
    button,         \* a button handed to setButtonLoading
    btnHist,        \* history of the setButtonLoading calls on `button`
    escIn,          \* the text handed to escapeHtml
    escOut,         \* what escapeHtml returned for it
    vifFile,        \* the file handed to validateImageFile
    vifResult,      \* what validateImageFile returned for it
    upload,         \* the file input and preview container of setupImageUpload
    fields,         \* the input/textarea/select elements of a form
    feedbacks,      \* the .invalid-feedback element of each parent element
    form,           \* the form: data-loading, submit button, pending debounces
    lastValidate,   \* arguments of the last updateFieldValidationState call
    lastSubmit      \* outcome of the last submit event

timeVars == <<now, timers, nextTimerId>>
dbVars == <<dbWait, dbTimeout, dbLog>>
toastVars == <<toastContainer, toasts>>
modalVars == <<modals>>
buttonVars == <<button, btnHist>>
escVars == <<escIn, escOut>>
vifVars == <<vifFile, vifResult>>
uploadVars == <<upload>>
formVars == <<fields, feedbacks, form, lastValidate, lastSubmit>>

vars == <<timeVars, dbVars, toastVars, modalVars, buttonVars, escVars,
          vifVars, uploadVars, formVars>>

-----------------------------------------------------------------------------
(* Brainchild.config                                                        *)

AnimationDuration == 300
DebounceDelay == 300
MaxFileSize == 16777216
AllowedImageTypes ==
    {"image/jpeg", "image/jpg", "image/png", "image/gif", "image/webp"}

-----------------------------------------------------------------------------
(* Bounds of the model                                                      *)

Tick == 50          \* grid on which input events of the debounce model arrive
DbMaxTime == 900    \* the debounce model's clock stops here
MaxCalls == 3       \* calls of the debounced wrapper
ToastTick == 500    \* grid on which input events of the toast model arrive
ToastMaxTime == 6000 \* the toast model's clock stops here
MaxToasts == 1      \* toasts created in one run
MaxCloseClicks == 2 \* clicks on one toast's close button
MaxModals == 2      \* confirmation modals opened in one run
MaxModalClicks == 2 \* clicks on the two footer buttons of one modal
MaxButtonCalls == 4 \* setButtonLoading calls on the button
MaxTextLen == 3     \* length of the text handed to escapeHtml
MaxChanges == 3     \* change events on the file input
NumFields == 2      \* fields of the form

-----------------------------------------------------------------------------
(* The parts of the page a run does not touch                               *)

notTimeDbVars == <<toastVars, modalVars, buttonVars, escVars, vifVars,
                   uploadVars, formVars>>
notModalVars == <<timeVars, dbVars, toastVars, buttonVars, escVars, vifVars,
                  uploadVars, formVars>>
notButtonVars == <<timeVars, dbVars, toastVars, modalVars, escVars, vifVars,
                   uploadVars, formVars>>
notEscVars == <<timeVars, dbVars, toastVars, modalVars, buttonVars, vifVars,
                uploadVars, formVars>>
notVifVars == <<timeVars, dbVars, toastVars, modalVars, buttonVars, escVars,
                uploadVars, formVars>>
notUploadToastVars == <<dbVars, modalVars, buttonVars, escVars, vifVars,
                        formVars>>
notFormVars == <<timeVars, dbVars, toastVars, modalVars, buttonVars, escVars,
                 vifVars, uploadVars>>
notTimeToastVars == <<dbVars, modalVars, buttonVars, escVars, vifVars,
                      uploadVars, formVars>>

NoText == <<>>
NoFile == [present |-> FALSE, type |-> "", size |-> 0]
NoResult == [valid |-> FALSE, message |-> ""]

TimeIdle == now = 0 /\ timers = {} /\ nextTimerId = 1
DebounceIdle == dbWait = DebounceDelay /\ dbTimeout = 0 /\ dbLog = <<>>
ToastIdle == toastContainer = FALSE /\ toasts = <<>>
ModalIdle == modals = <<>>
ButtonIdle ==
    /\ button = [innerHTML |-> "", disabled |-> FALSE,
                 hasOriginalText |-> FALSE, originalText |-> ""]
    /\ btnHist = [last |-> "none", calls |-> 0, entered |-> FALSE,
                  before |-> "", initial |-> ""]
EscIdle == escIn = NoText /\ escOut = [done |-> FALSE, text |-> NoText]
VifIdle == vifFile = NoFile /\ vifResult = [done |-> FALSE, result |-> NoResult]
UploadIdle ==
    upload = [file |-> 0, preview |-> 0, reads |-> <<>>, changes |-> 0]
FormIdle ==
    /\ fields = <<>>
    /\ feedbacks = <<>>
    /\ form = [dataLoading |-> FALSE, hasSubmitBtn |-> FALSE,
               submitBtn |-> [innerHTML |-> "", disabled |-> FALSE,
                              hasOriginalText |-> FALSE, originalText |-> ""],
               pending |-> {}]
    /\ lastValidate = [field |-> 0, isValid |-> TRUE, message |-> ""]
    /\ lastSubmit = [fresh |-> FALSE, prevented |-> FALSE, stopped |-> FALSE]

-----------------------------------------------------------------------------
(* Helpers                                                                  *)

Min(a, b) == IF a < b THEN a ELSE b

SetMin(S) == CHOOSE x \in S : \A y \in S : x <= y

-----------------------------------------------------------------------------
(* The timer table: setTimeout / clearTimeout and the passing of time       *)

SetTimeout(ts, id, kind, arg, delay) ==
    ts \cup {[id |-> id, at |-> now + delay, kind |-> kind, arg |-> arg]}

ClearTimeoutNoop(ts, id) == ts

ClearTimeout(ts, id) == {t \in ts : t.id # id}

Due(kinds) == {t \in timers : t.kind \in kinds /\ t.at = now}

\* Timers of equal deadline run in the order they were set.
FirstDue == CHOOSE t \in Due({"later", "show", "auto", "detach"}) :
               \A u \in Due({"later", "show", "auto", "detach"}) : t.id <= u.id

NextDeadline(limit) ==
    IF timers = {} THEN limit ELSE Min(limit, SetMin({t.at : t \in timers}))

\* The clock moves to the next grid point, or to the next deadline when that
\* comes first.
Advance(tick, limit) ==
    /\ now < limit
    /\ \A t \in timers : t.at > now
    /\ now' = Min(NextDeadline(limit), ((now \div tick) + 1) * tick)
    /\ UNCHANGED <<timers, nextTimerId>>

-----------------------------------------------------------------------------
(* Brainchild.utils.debounce                                                *)

\* executedFunction(...args): the wrapper.  The arguments of a call are
\* modelled by the call's ordinal, so that every call has its own arguments.
NumCalls == Cardinality({i \in DOMAIN dbLog : dbLog[i].ev = "call"})

ExecutedFunction ==
    /\ NumCalls < MaxCalls
    /\ Due({"later"}) = {}
    /\ LET arg == NumCalls + 1 IN
        /\ timers' = SetTimeout(ClearTimeout(timers, dbTimeout),
                                nextTimerId, "later", arg, dbWait)
        /\ dbTimeout' = nextTimerId
        /\ nextTimerId' = nextTimerId + 1
        /\ dbLog' = Append(dbLog, [ev |-> "call", t |-> now, arg |-> arg])
    /\ UNCHANGED <<now, dbWait, notTimeDbVars>>

\* later(): clearTimeout(timeout); func(...args)
Later ==
    /\ Due({"later"}) # {}
    /\ LET tm == FirstDue IN
        /\ tm.kind = "later"
        /\ timers' = ClearTimeout(timers \ {tm}, dbTimeout)
        /\ dbLog' = Append(dbLog, [ev |-> "fire", t |-> now, arg |-> tm.arg])
    /\ UNCHANGED <<now, nextTimerId, dbWait, dbTimeout, notTimeDbVars>>

AdvanceDb == Advance(Tick, DbMaxTime) /\ UNCHANGED <<dbVars, notTimeDbVars>>

InitDebounce ==
    /\ TimeIdle
    /\ dbWait \in {2 * Tick, DebounceDelay}
    /\ dbTimeout = 0
    /\ dbLog = <<>>
    /\ ToastIdle /\ ModalIdle /\ ButtonIdle /\ EscIdle /\ VifIdle
    /\ UploadIdle /\ FormIdle

NextDebounce == ExecutedFunction \/ Later \/ AdvanceDb

SpecDebounce == InitDebounce /\ [][NextDebounce]_vars

\* C1: in every burst of calls, each less than `wait` after the previous one,
\* func is invoked exactly once, `wait` after the last call of the burst and
\* with that call's arguments; func is never invoked while a newer call is
\* less than `wait` old.  On the log: an invocation directly follows the call
\* whose arguments it carries, exactly `wait` later; a call is followed by a
\* newer call of the same burst or by its invocation, or its timer is pending.
DebounceFiresOncePerBurst ==
    /\ \A i \in DOMAIN dbLog : dbLog[i].ev = "fire" =>
          /\ i > 1
          /\ dbLog[i - 1].ev = "call"
          /\ dbLog[i].arg = dbLog[i - 1].arg
          /\ dbLog[i].t = dbLog[i - 1].t + dbWait
    /\ \A i \in DOMAIN dbLog : dbLog[i].ev = "call" =>
          IF i < Len(dbLog)
          THEN \/ dbLog[i + 1].ev = "fire"
               \/ dbLog[i + 1].t < dbLog[i].t + dbWait
          ELSE /\ now <= dbLog[i].t + dbWait
               /\ \E tm \in timers : /\ tm.kind = "later"
                                     /\ tm.arg = dbLog[i].arg
                                     /\ tm.at = dbLog[i].t + dbWait

\* Calls at t = 0, 50, 100 with wait = 300: one invocation, at t = 400, with
\* the arguments of the third call.
DebounceBurstWitness ==
    /\ dbWait = DebounceDelay
    /\ dbLog = << [ev |-> "call", t |-> 0, arg |-> 1],
                  [ev |-> "call", t |-> 50, arg |-> 2],
                  [ev |-> "call", t |-> 100, arg |-> 3],
                  [ev |-> "fire", t |-> 400, arg |-> 3] >>

-----------------------------------------------------------------------------
(* Brainchild.ui: showToast, getOrCreateToastContainer, removeToast         *)

DefaultDuration == 5000
ShowDelay == 10
RemoveDelay == 300

DurationChoices == {0, 200, DefaultDuration}
ToastMessages == {"Erro ao copiar texto"}
ToastTypes == {"info"}

\* createToastElement: a detached element; hideAt, detachedAt and closed are
\* history (when 'hide' was first added, when the element left the container,
\* how often its close button was clicked).
CreateToastElement(message, type, duration) ==
    [message |-> message, type |-> type, duration |-> duration,
     createdAt |-> now, attached |-> FALSE, show |-> FALSE, hide |-> FALSE,
     hideAt |-> -1, detachedAt |-> -1, clicks |-> 0]

\* toast.classList.add('hide')
MarkHide(t) ==
    [t EXCEPT !.hide = TRUE, !.hideAt = IF t.hide THEN @ ELSE now]

DetachTimeoutNoDelay(ts, id, i) == SetTimeout(ts, id, "detach", i, 0)

\* setTimeout(() => { if (toast.parentNode) ... removeChild(toast) }, 300)
DetachTimeout(ts, id, i) == SetTimeout(ts, id, "detach", i, RemoveDelay)

\* showToast(message, type, duration), as called from any handler
ShowToastEffect(message, type, duration) ==
    /\ toastContainer' = TRUE
    /\ toasts' = Append(toasts,
          [CreateToastElement(message, type, duration)
              EXCEPT !.attached = TRUE])
    /\ timers' = SetTimeout(
                    SetTimeout(timers, nextTimerId, "show",
                               Len(toasts) + 1, ShowDelay),
                    nextTimerId + 1, "auto", Len(toasts) + 1, duration)
    /\ nextTimerId' = nextTimerId + 2

\* removeToast(toast); `ts` is the timer table the call starts from and
\* `click` tells whether the close button made the call (history only).
RemoveToast(i, ts, click) ==
    /\ toasts' = [toasts EXCEPT
                     ![i] = [MarkHide(@) EXCEPT
                                !.clicks = IF click THEN @ + 1 ELSE @]]
    /\ timers' = DetachTimeout(ts, nextTimerId, i)
    /\ nextTimerId' = nextTimerId + 1

OnToastGrid == now % ToastTick = 0

ShowToast ==
    /\ Len(toasts) < MaxToasts
    /\ OnToastGrid
    /\ \E m \in ToastMessages, ty \in ToastTypes, d \in DurationChoices :
          ShowToastEffect(m, ty, d)
    /\ UNCHANGED <<now, notTimeToastVars>>

\* The toast's close button: onclick removeToast(this.closest('.toast'))
CloseClick ==
    /\ OnToastGrid
    /\ \E i \in DOMAIN toasts :
          /\ toasts[i].attached
          /\ toasts[i].clicks < MaxCloseClicks
          /\ RemoveToast(i, timers, TRUE)
    /\ UNCHANGED <<now, toastContainer, notTimeToastVars>>

\* setTimeout(() => toast.classList.add('show'), 10)
ToastShowTimer ==
    /\ Due({"show", "auto", "detach"}) # {}
    /\ LET tm == FirstDue IN
        /\ tm.kind = "show"
        /\ toasts' = [toasts EXCEPT ![tm.arg].show = TRUE]
        /\ timers' = timers \ {tm}
    /\ UNCHANGED <<now, nextTimerId, toastContainer, notTimeToastVars>>

\* setTimeout(() => this.removeToast(toast), duration)
ToastAutoRemoveTimer ==
    /\ Due({"show", "auto", "detach"}) # {}
    /\ LET tm == FirstDue IN
        /\ tm.kind = "auto"
        /\ RemoveToast(tm.arg, timers \ {tm}, FALSE)
    /\ UNCHANGED <<now, toastContainer, notTimeToastVars>>

\* the callback of removeToast's timer
ToastDetachTimer ==
    /\ Due({"show", "auto", "detach"}) # {}
    /\ LET tm == FirstDue IN
        /\ tm.kind = "detach"
        /\ toasts' = [toasts EXCEPT ![tm.arg] =
              IF @.attached
              THEN [@ EXCEPT !.attached = FALSE, !.detachedAt = now]
              ELSE @]
        /\ timers' = timers \ {tm}
    /\ UNCHANGED <<now, nextTimerId, toastContainer, notTimeToastVars>>

AdvanceToast ==
    Advance(ToastTick, ToastMaxTime) /\ UNCHANGED <<toastVars, notTimeToastVars>>

InitToast ==
    /\ TimeIdle
    /\ toastContainer \in BOOLEAN
    /\ toasts = <<>>
    /\ DebounceIdle /\ ModalIdle /\ ButtonIdle /\ EscIdle /\ VifIdle
    /\ UploadIdle /\ FormIdle

NextToast ==
    \/ ShowToast
    \/ CloseClick
    \/ ToastShowTimer
    \/ ToastAutoRemoveTimer
    \/ ToastDetachTimer
    \/ AdvanceToast

SpecToast == InitToast /\ [][NextToast]_vars

\* C2: a toast is in the container right after showToast and no longer in it
\* duration + 300 ms later; it leaves the container only after having carried
\* 'hide' for the 300 ms of the transition, whoever called removeToast.
ToastTwoPhaseRemoval ==
    \A i \in DOMAIN toasts :
        LET t == toasts[i] IN
        /\ now = t.createdAt => t.attached
        /\ (now >= t.createdAt + t.duration + RemoveDelay /\ Due({"detach"}) = {})
              => ~t.attached
        /\ ~t.attached => /\ t.hide
                          /\ t.detachedAt >= t.hideAt + RemoveDelay

\* A toast of the default duration whose close button was clicked, on which
\* the auto-removal timer also ran, and which has left the container.
ToastBothRemovalsWitness ==
    \E i \in DOMAIN toasts :
        /\ toasts[i].duration = DefaultDuration
        /\ toasts[i].clicks > 0
        /\ ~toasts[i].attached
        /\ now >= toasts[i].createdAt + DefaultDuration + RemoveDelay
        /\ \A tm \in timers : tm.arg # i

-----------------------------------------------------------------------------
(* Brainchild.ui.showConfirmModal                                           *)

\* The host widget library's modal fades out: hide() starts the transition
\* and the 'hidden.bs.modal' notification follows when it ends.  Until then
\* the element, with its buttons, is still in the page.
\*   phase: "shown" | "hiding" | "hidden"
BsHide(m) == IF m.phase = "shown" THEN [m EXCEPT !.phase = "hiding"] ELSE m

\* showConfirmModal(title, message, onConfirm, onCancel); the callbacks may
\* be absent (window.showConfirmModal passes no onCancel).
ShowConfirmModal ==
    /\ Len(modals) < MaxModals
    /\ \E onConfirm \in BOOLEAN, onCancel \in BOOLEAN :
          modals' = Append(modals,
              [onConfirm |-> onConfirm, onCancel |-> onCancel,
               phase |-> "shown", inBody |-> TRUE, clicks |-> 0,
               confirmed |-> 0, cancelled |-> 0])
    /\ UNCHANGED notModalVars

\* click on .btn-confirm: bsModal.hide(); if (onConfirm) onConfirm()
ConfirmClick ==
    /\ \E i \in DOMAIN modals :
          /\ modals[i].inBody
          /\ modals[i].clicks < MaxModalClicks
          /\ modals' = [modals EXCEPT ![i] =
                [BsHide(@) EXCEPT
                   !.clicks = @ + 1,
                   !.confirmed = IF modals[i].onConfirm THEN @ + 1 ELSE @]]
    /\ UNCHANGED notModalVars

\* click on .btn-cancel: bsModal.hide(); if (onCancel) onCancel()
CancelClick ==
    /\ \E i \in DOMAIN modals :
          /\ modals[i].inBody
          /\ modals[i].clicks < MaxModalClicks
          /\ modals' = [modals EXCEPT ![i] =
                [BsHide(@) EXCEPT
                   !.clicks = @ + 1,
                   !.cancelled = IF modals[i].onCancel THEN @ + 1 ELSE @]]
    /\ UNCHANGED notModalVars

\* The header's close button (data-bs-dismiss), the backdrop, the Esc key:
\* the library hides the modal, no callback of this module runs.
DismissModal ==
    /\ \E i \in DOMAIN modals :
          /\ modals[i].phase = "shown"
          /\ modals' = [modals EXCEPT ![i] = BsHide(@)]
    /\ UNCHANGED notModalVars

\* 'hidden.bs.modal': document.body.removeChild(modal)
ModalHidden ==
    /\ \E i \in DOMAIN modals :
          /\ modals[i].phase = "hiding"
          /\ modals' = [modals EXCEPT ![i].phase = "hidden",
                                      ![i].inBody = FALSE]
    /\ UNCHANGED notModalVars

InitModal ==
    /\ modals = <<>>
    /\ TimeIdle /\ DebounceIdle /\ ToastIdle /\ ButtonIdle /\ EscIdle /\ VifIdle
    /\ UploadIdle /\ FormIdle

NextModal ==
    \/ ShowConfirmModal
    \/ ConfirmClick
    \/ CancelClick
    \/ DismissModal
    \/ ModalHidden

SpecModal == InitModal /\ [][NextModal]_vars

\* C5: for one showConfirmModal invocation, whatever the user does with the
\* modal, onConfirm and onCancel together are invoked at most once.
ModalCallbackAtMostOnce ==
    \A i \in DOMAIN modals : modals[i].confirmed + modals[i].cancelled <= 1

-----------------------------------------------------------------------------
(* Brainchild.ui.setButtonLoading                                           *)

SpinnerMarkup(loadingText) ==
    "<span class=\"spinner-border spinner-border-sm me-2\"></span>"
        \o loadingText

ButtonMarkups == {"", "Salvar", "<i class=\"bi bi-check\"></i> Enviar"}
LoadingTexts == {"Carregando...", "Processando..."}

\* setButtonLoading(button, loading, loadingText) on the element b.  The
\* attribute data-original-text is (hasOriginalText, originalText);
\* getAttribute gives null when it is absent, and `if (originalText)` is false
\* for null and for the empty string.
SetButtonLoading(b, loading, loadingText) ==
    IF loading
    THEN [innerHTML |-> SpinnerMarkup(loadingText), disabled |-> TRUE,
          hasOriginalText |-> TRUE, originalText |-> b.innerHTML]
    ELSE IF b.hasOriginalText /\ b.originalText # ""
         THEN [innerHTML |-> b.originalText, disabled |-> FALSE,
               hasOriginalText |-> FALSE, originalText |-> ""]
         ELSE [b EXCEPT !.disabled = FALSE]

\* A call on the button.  btnHist records the last call's flag, whether a
\* loading=true call was ever made, and the markup the button had when it
\* last went from idle to loading.
SetButtonLoadingCall ==
    /\ btnHist.calls < MaxButtonCalls
    /\ \E loading \in BOOLEAN, loadingText \in LoadingTexts :
          /\ button' = SetButtonLoading(button, loading, loadingText)
          /\ btnHist' = [btnHist EXCEPT
                !.calls = @ + 1,
                !.last = IF loading THEN "true" ELSE "false",
                !.entered = @ \/ loading,
                !.before = IF loading /\ btnHist.last # "true"
                           THEN button.innerHTML ELSE @]
    /\ UNCHANGED notButtonVars

InitButton ==
    /\ \E markup \in ButtonMarkups, disabled \in BOOLEAN :
          /\ button = [innerHTML |-> markup, disabled |-> disabled,
                       hasOriginalText |-> FALSE, originalText |-> ""]
          /\ btnHist = [last |-> "none", calls |-> 0, entered |-> FALSE,
                        before |-> "", initial |-> markup]
    /\ TimeIdle /\ DebounceIdle /\ ToastIdle /\ ModalIdle /\ EscIdle /\ VifIdle
    /\ UploadIdle /\ FormIdle

NextButton == SetButtonLoadingCall

SpecButton == InitButton /\ [][NextButton]_vars

\* C9: whenever the last setButtonLoading call on a button was loading=false,
\* the button is enabled and its markup is the markup it had before it
\* entered the loading state; a loading=false call with no loading=true
\* before it leaves the markup as it was and no stash attribute behind.
ButtonRestoredAfterLoading ==
    btnHist.last = "false" =>
        /\ ~button.disabled
        /\ IF btnHist.entered
           THEN button.innerHTML = btnHist.before
           ELSE button.innerHTML = btnHist.initial /\ ~button.hasOriginalText

-----------------------------------------------------------------------------
(* Brainchild.utils.escapeHtml                                              *)

\* Text is a sequence of characters.
TextChars == {"&", "<", ">", "\"", "'", "a", ";"}

RECURSIVE TextsOfLen(_)
TextsOfLen(n) ==
    IF n = 0 THEN {<<>>}
    ELSE {Append(t, c) : t \in TextsOfLen(n - 1), c \in TextChars}

Texts == UNION {TextsOfLen(n) : n \in 0..MaxTextLen}

\* const map = { '&': '&amp;', '<': '&lt;', '>': '&gt;', '"': '&quot;',
\*               "'": '&#039;' }
EscapeMap ==
    [c \in {"&", "<", ">", "\"", "'"} |->
        CASE c = "&" -> <<"&", "a", "m", "p", ";">>
          [] c = "<" -> <<"&", "l", "t", ";">>
          [] c = ">" -> <<"&", "g", "t", ";">>
          [] c = "\"" -> <<"&", "q", "u", "o", "t", ";">>
          [] c = "'" -> <<"&", "#", "0", "3", "9", ";">>]

ReplaceCharNoApostrophe(c) ==
    IF c \in {"&", "<", ">", "\""} THEN EscapeMap[c] ELSE <<c>>

\* function(m) { return map[m]; } on a match of /[&<>"']/, the character
\* itself otherwise
ReplaceChar(c) == IF c \in DOMAIN EscapeMap THEN EscapeMap[c] ELSE <<c>>

\* text.replace(/[&<>"']/g, ...): every match, left to right
RECURSIVE EscapeHtml(_)
EscapeHtml(text) ==
    IF text = <<>> THEN <<>>
    ELSE ReplaceChar(Head(text)) \o EscapeHtml(Tail(text))

EscapeHtmlCall ==
    /\ ~escOut.done
    /\ escOut' = [done |-> TRUE, text |-> EscapeHtml(escIn)]
    /\ UNCHANGED <<escIn, notEscVars>>

InitEscape ==
    /\ escIn \in Texts
    /\ escOut = [done |-> FALSE, text |-> NoText]
    /\ TimeIdle /\ DebounceIdle /\ ToastIdle /\ ModalIdle /\ ButtonIdle
    /\ VifIdle /\ UploadIdle /\ FormIdle

NextEscape == EscapeHtmlCall

SpecEscape == InitEscape /\ [][NextEscape]_vars

HasChar(text, chars) == \E i \in DOMAIN text : text[i] \in chars

\* Whether the entity e stands in text at position i.
EntityAt(text, i, e) ==
    /\ i + Len(e) - 1 <= Len(text)
    /\ SubSeq(text, i, i + Len(e) - 1) = e

\* C8 as stated: escapeHtml(s) contains none of the characters < > & " '.
EscapedHasNoSpecialChar ==
    escOut.done => ~HasChar(escOut.text, {"<", ">", "&", "\"", "'"})

\* C8: escapeHtml(s) contains none of the characters < > " ', and every & in
\* it is the first character of one of the five entities.
EscapedHasOnlyEntityAmpersands ==
    escOut.done =>
        /\ ~HasChar(escOut.text, {"<", ">", "\"", "'"})
        /\ \A i \in DOMAIN escOut.text : escOut.text[i] = "&" =>
              \E c \in DOMAIN EscapeMap : EntityAt(escOut.text, i, EscapeMap[c])

\* A text with an apostrophe, an ampersand and an angle bracket was escaped.
EscapedSpecialsWitness ==
    /\ escOut.done
    /\ HasChar(escIn, {"'"}) /\ HasChar(escIn, {"&"}) /\ HasChar(escIn, {"<"})
    /\ Len(escOut.text) > Len(escIn)

-----------------------------------------------------------------------------
(* Brainchild.utils.formatBytes, Brainchild.utils.validateImageFile         *)

RECURSIVE Pow(_, _)
Pow(b, e) == IF e = 0 THEN 1 ELSE b * Pow(b, e - 1)

\* Math.floor(Math.log(bytes) / Math.log(k)) for an integer bytes >= 1
RECURSIVE FloorLog(_, _)
FloorLog(bytes, k) == IF bytes < k THEN 0 ELSE 1 + FloorLog(bytes \div k, k)

SizeUnits == <<"Bytes", "KB", "MB", "GB">>

\* parseFloat(x.toFixed(dm)) printed: x is given in hundredths (dm is 2 for
\* the one call the module makes); trailing zeros of the fraction are dropped.
FixedToString(hundredths) ==
    LET whole == hundredths \div 100
        frac == hundredths % 100
    IN  ToString(whole) \o
        (IF frac = 0 THEN ""
         ELSE IF frac % 10 = 0 THEN "." \o ToString(frac \div 10)
         ELSE IF frac < 10 THEN ".0" \o ToString(frac)
         ELSE "." \o ToString(frac))

\* formatBytes(bytes) with the default decimals = 2.  The quotient
\* bytes / k^i is computed in hundredths, rounded to the nearest; above the
\* KB range the remainder is first cut to its leading 20 bits, which keeps
\* the arithmetic within 32 bits.
FormatBytes(bytes) ==
    IF bytes = 0 THEN "0 Bytes"
    ELSE LET k == 1024
             i == FloorLog(bytes, k)
             unit == Pow(k, i)
             cut == IF i > 2 THEN Pow(k, i - 2) ELSE 1
             rem == (bytes % unit) \div cut
             hundredths == (bytes \div unit) * 100
                             + (rem * 200 + (unit \div cut)) \div (2 * (unit \div cut))
         IN  FixedToString(hundredths) \o " " \o
             (IF i + 1 \in DOMAIN SizeUnits THEN SizeUnits[i + 1]
              ELSE "undefined")

MsgNoFile == "Nenhum arquivo selecionado"
MsgBadType == "Tipo de arquivo não permitido. Use: JPG, PNG, GIF ou WEBP"
MsgTooLarge == "Arquivo muito grande. Máximo: " \o FormatBytes(MaxFileSize)
MsgFileOk == "Arquivo válido"

TooLargeInclusive(file) == file.size >= MaxFileSize

\* file.size > Brainchild.config.maxFileSize
TooLarge(file) == file.size > MaxFileSize

\* validateImageFile(file)
ValidateImageFile(file) ==
    IF ~file.present THEN [valid |-> FALSE, message |-> MsgNoFile]
    ELSE IF file.type \notin AllowedImageTypes
         THEN [valid |-> FALSE, message |-> MsgBadType]
    ELSE IF TooLarge(file) THEN [valid |-> FALSE, message |-> MsgTooLarge]
    ELSE [valid |-> TRUE, message |-> MsgFileOk]

FileTypes == AllowedImageTypes \cup {"text/plain", "image/bmp", ""}
FileSizes == {0, 1024, 10 * 1024 * 1024, 16 * 1024 * 1024 - 1,
              16 * 1024 * 1024, 16 * 1024 * 1024 + 1, 20 * 1024 * 1024}
Files == [present : {TRUE}, type : FileTypes, size : FileSizes]

ValidateImageFileCall ==
    /\ ~vifResult.done
    /\ vifResult' = [done |-> TRUE, result |-> ValidateImageFile(vifFile)]
    /\ UNCHANGED <<vifFile, notVifVars>>

InitImageFile ==
    /\ vifFile \in Files \cup {NoFile}
    /\ vifResult = [done |-> FALSE, result |-> NoResult]
    /\ TimeIdle /\ DebounceIdle /\ ToastIdle /\ ModalIdle /\ ButtonIdle
    /\ EscIdle /\ UploadIdle /\ FormIdle

NextImageFile == ValidateImageFileCall

SpecImageFile == InitImageFile /\ [][NextImageFile]_vars

\* The verdict and the message for every file, stated from the allow-set
\* and the 16 MiB limit (inclusive).
ImageFileVerdict ==
    vifResult.done =>
        LET r == vifResult.result
            typeOk == vifFile.type \in {"image/jpeg", "image/jpg", "image/png",
                                        "image/gif", "image/webp"}
            sizeOk == vifFile.size <= 16 * 1024 * 1024
        IN  /\ r.valid <=> (vifFile.present /\ typeOk /\ sizeOk)
            /\ ~vifFile.present => r.message = "Nenhum arquivo selecionado"
            /\ (vifFile.present /\ ~typeOk) =>
                  r.message =
                    "Tipo de arquivo não permitido. Use: JPG, PNG, GIF ou WEBP"
            /\ (vifFile.present /\ typeOk /\ ~sizeOk) =>
                  r.message = "Arquivo muito grande. Máximo: 16 MB"

\* A step that delivers a result changes nothing else.
ValidateImageFileIsPure ==
    [][vifResult' # vifResult => UNCHANGED <<vifFile, notVifVars>>]_vars

\* C7: validateImageFile(file) is valid exactly when the file is present, its
\* type is one of the five allowed types and its size is at most 16 MiB; an
\* absent file gets the no-file message, a disallowed type the type message
\* (whatever the size), an allowed type above 16 MiB the size message; and
\* the call changes nothing but its result.
ImageFileValidation == []ImageFileVerdict /\ ValidateImageFileIsPure

\* An image/png of exactly 16 MiB was accepted.
ImageFileBoundaryWitness ==
    /\ vifResult.done
    /\ vifFile.type = "image/png"
    /\ vifFile.size = 16 * 1024 * 1024
    /\ vifResult.result.valid

-----------------------------------------------------------------------------
(* Brainchild.forms: setupImageUpload, showImagePreview, removeImagePreview *)

\* The files the user may pick; 0 stands for "no file" (an emptied input, a
\* cleared preview).
UploadFiles ==
    << [present |-> TRUE, type |-> "image/png", size |-> 1024],
       [present |-> TRUE, type |-> "image/jpeg", size |-> 10 * 1024 * 1024],
       [present |-> TRUE, type |-> "text/plain", size |-> 1024],
       [present |-> TRUE, type |-> "image/png", size |-> 20 * 1024 * 1024] >>

RemoveAt(seq, j) == SubSeq(seq, 1, j - 1) \o SubSeq(seq, j + 1, Len(seq))

\* clearImagePreview(container)
ClearImagePreview(u) == [u EXCEPT !.preview = 0]

\* The input's change listener, for the selection k (0: the user emptied the
\* selection).  upload.file is the input's selection, upload.preview the file
\* whose preview the container shows, upload.reads the FileReaders that have
\* not delivered yet.
InputChange ==
    /\ upload.changes < MaxChanges
    /\ \E k \in 0..Len(UploadFiles) :
          /\ k # upload.file
          /\ IF k = 0
             THEN /\ upload' = [ClearImagePreview(upload) EXCEPT
                                   !.file = 0, !.changes = @ + 1]
                  /\ UNCHANGED <<timers, nextTimerId, toastVars>>
             ELSE LET validation == ValidateImageFile(UploadFiles[k]) IN
                  IF ~validation.valid
                  THEN /\ ShowToastEffect(validation.message, "danger",
                                          DefaultDuration)
                       /\ upload' = [ClearImagePreview(upload) EXCEPT
                                        !.file = 0, !.changes = @ + 1]
                  ELSE /\ upload' = [upload EXCEPT
                                        !.file = k, !.changes = @ + 1,
                                        !.reads = Append(@, k)]
                       /\ UNCHANGED <<timers, nextTimerId, toastVars>>
    /\ UNCHANGED <<now, notUploadToastVars>>

\* reader.onload of one of the pending readers: the readers are independent,
\* so they deliver in any order.
ReaderOnload ==
    /\ \E j \in DOMAIN upload.reads :
          upload' = [upload EXCEPT !.preview = upload.reads[j],
                                   !.reads = RemoveAt(@, j)]
    /\ UNCHANGED <<timeVars, toastVars, notUploadToastVars>>

\* The preview's "Remover" button: removeImagePreview(input.id, container.id)
RemoveImagePreview ==
    /\ upload.preview # 0
    /\ upload' = [ClearImagePreview(upload) EXCEPT !.file = 0]
    /\ UNCHANGED <<timeVars, toastVars, notUploadToastVars>>

InitUpload ==
    /\ upload = [file |-> 0, preview |-> 0, reads |-> <<>>, changes |-> 0]
    /\ TimeIdle /\ DebounceIdle /\ ToastIdle /\ ModalIdle /\ ButtonIdle
    /\ EscIdle /\ VifIdle /\ FormIdle

NextUpload == InputChange \/ ReaderOnload \/ RemoveImagePreview

SpecUpload == InitUpload /\ [][NextUpload]_vars

\* C10: once no read is pending, the container shows a preview only if the
\* input's latest selection was a valid image, and then the preview of that
\* file.
PreviewMatchesSelection ==
    (upload.reads = <<>> /\ upload.preview # 0) => upload.preview = upload.file

-----------------------------------------------------------------------------
(* Brainchild.forms: validateField, customValidations                       *)

\* A field value is a sequence of characters.
Whitespace == {" "}
Letters == {"a", "b", "c", "d", "e", "f"}
Digits == {"1", "2", "3", "4", "5", "6"}

\* An attribute that holds a number (minlength, maxlength) is that number, or
\* NoAttr when the element does not carry it; data-validate is its string,
\* or "" when the element does not carry it.
NoAttr == -1

\* String.prototype.trim
RECURSIVE TrimLeft(_)
TrimLeft(v) ==
    IF v # <<>> /\ Head(v) \in Whitespace THEN TrimLeft(Tail(v)) ELSE v

RECURSIVE TrimRight(_)
TrimRight(v) ==
    IF v # <<>> /\ v[Len(v)] \in Whitespace
    THEN TrimRight(SubSeq(v, 1, Len(v) - 1)) ELSE v

Trim(v) == TrimRight(TrimLeft(v))

\* /^[^\s@]+@[^\s@]+\.[^\s@]+$/.test(v): one '@' at i with something before
\* it, a '.' at j after it with something on both sides, and neither
\* whitespace nor a second '@' anywhere.
EmailRegexTest(v) ==
    \E i \in DOMAIN v, j \in DOMAIN v :
        /\ v[i] = "@" /\ v[j] = "."
        /\ 1 < i /\ i + 1 < j /\ j < Len(v)
        /\ \A k \in DOMAIN v \ {i} : v[k] \notin Whitespace \cup {"@"}

\* /^[a-zA-Z0-9_]+$/.test(v)
UsernameRegexTest(v) ==
    /\ v # <<>>
    /\ \A k \in DOMAIN v : v[k] \in Letters \cup Digits \cup {"_"}

MsgRequired == "Este campo é obrigatório"
MsgEmail == "Email inválido"
MsgMinLength(minLength) == "Mínimo " \o ToString(minLength) \o " caracteres"
MsgMaxLength(maxLength) == "Máximo " \o ToString(maxLength) \o " caracteres"
MsgUsername == "Username deve conter apenas letras, números e underscore"
MsgPasswordShort == "Senha deve ter pelo menos 6 caracteres"
MsgPasswordLetter == "Senha deve conter pelo menos uma letra"
MsgPasswordDigit == "Senha deve conter pelo menos um número"

\* customValidations.username(value)
ValidateUsername(value) ==
    [valid |-> UsernameRegexTest(value), message |-> MsgUsername]

\* customValidations.password(value)
ValidatePassword(value) ==
    IF Len(value) < 6 THEN [valid |-> FALSE, message |-> MsgPasswordShort]
    ELSE IF ~\E k \in DOMAIN value : value[k] \in Letters
         THEN [valid |-> FALSE, message |-> MsgPasswordLetter]
    ELSE IF ~\E k \in DOMAIN value : value[k] \in Digits
         THEN [valid |-> FALSE, message |-> MsgPasswordDigit]
    ELSE [valid |-> TRUE, message |-> ""]

\* The registry customValidations: the validation kinds it knows.
CustomValidationKinds == {"username", "password"}

CustomValidation(kind, value) ==
    IF kind = "username" THEN ValidateUsername(value)
    ELSE ValidatePassword(value)

\* The five rules of validateField on the trimmed value: whether rule k fails
\* for the field f, and the message it then sets.
RuleFails(k, f) ==
    LET value == Trim(f.value) IN
    CASE k = 1 -> f.required /\ value = <<>>
      [] k = 2 -> f.type = "email" /\ value # <<>> /\ ~EmailRegexTest(value)
      [] k = 3 -> /\ f.minlength # NoAttr
                  /\ Len(value) > 0
                  /\ Len(value) < f.minlength
      [] k = 4 -> f.maxlength # NoAttr /\ Len(value) > f.maxlength
      [] k = 5 -> /\ f.validate \in CustomValidationKinds
                  /\ ~CustomValidation(f.validate, value).valid

RuleMessage(k, f) ==
    CASE k = 1 -> MsgRequired
      [] k = 2 -> MsgEmail
      [] k = 3 -> MsgMinLength(f.minlength)
      [] k = 4 -> MsgMaxLength(f.maxlength)
      [] k = 5 -> CustomValidation(f.validate, Trim(f.value)).message

\* validateField up to the call of updateFieldValidationState: isValid and
\* message start as (true, '') and every failing rule, in turn, assigns both.
RECURSIVE ApplyRules(_, _, _)
ApplyRules(f, k, acc) ==
    IF k > 5 THEN acc
    ELSE ApplyRules(f, k + 1,
            IF RuleFails(k, f)
            THEN [isValid |-> FALSE, message |-> RuleMessage(k, f)]
            ELSE acc)

FieldVerdict(f) == ApplyRules(f, 1, [isValid |-> TRUE, message |-> ""])

-----------------------------------------------------------------------------
(* Brainchild.forms: updateFieldValidationState, createFeedbackElement,     *)
(* validateForm, setupFormValidation                                        *)

\* The page: `fs` the fields, `fb` the .invalid-feedback element of each
\* parent element (present or not, its text, whether it is displayed), `last`
\* the arguments of the last updateFieldValidationState call.  Each field
\* remembers in lastMessage the message of its own last call ("" when that
\* call found it valid).
NoFeedback == [present |-> FALSE, text |-> "", shown |-> FALSE]

\* updateFieldValidationState(field, isValid, message) for field i:
\* field.parentNode.querySelector('.invalid-feedback') is the parent's
\* element when there is one, and createFeedbackElement appends one otherwise.
UpdateFieldValidationState(page, i, isValid, message) ==
    [fs |-> [page.fs EXCEPT ![i].isValidClass = isValid,
                            ![i].isInvalidClass = ~isValid,
                            ![i].lastMessage = IF isValid THEN ""
                                               ELSE message],
     fb |-> [page.fb EXCEPT ![page.fs[i].parent] =
                [present |-> TRUE,
                 text |-> IF isValid THEN "" ELSE message,
                 shown |-> ~isValid]],
     last |-> [field |-> i, isValid |-> isValid, message |-> message]]

\* validateField(field): the page afterwards, and the value returned
ValidateField(page, i) ==
    LET v == FieldVerdict(page.fs[i]) IN
    [page |-> UpdateFieldValidationState(page, i, v.isValid, v.message),
     ok |-> v.isValid]

RECURSIVE ValidateFieldsFrom(_, _, _)
ValidateFieldsFrom(page, i, isValid) ==
    IF i > Len(page.fs) THEN [page |-> page, ok |-> isValid]
    ELSE LET r == ValidateField(page, i) IN
         ValidateFieldsFrom(r.page, i + 1, isValid /\ r.ok)

RECURSIVE ValidateFieldsUntilInvalid(_, _)
ValidateFieldsUntilInvalid(page, i) ==
    IF i > Len(page.fs) THEN [page |-> page, ok |-> TRUE]
    ELSE LET r == ValidateField(page, i) IN
         IF r.ok THEN ValidateFieldsUntilInvalid(r.page, i + 1)
         ELSE [page |-> r.page, ok |-> FALSE]

ValidateFormShortCircuit(page) == ValidateFieldsUntilInvalid(page, 1)

\* validateForm(form): fields.forEach(validateField), isValid the conjunction
ValidateForm(page) == ValidateFieldsFrom(page, 1, TRUE)

Page == [fs |-> fields, fb |-> feedbacks, last |-> lastValidate]

SetPage(page) ==
    /\ fields' = page.fs
    /\ feedbacks' = page.fb
    /\ lastValidate' = page.last

FieldValues ==
    { <<>>,
      <<" ", " ">>,
      <<"a", "b">>,
      <<" ", "a", "b", " ">>,
      <<"a", "@", "b", ".", "c">>,
      <<"a", "@", "b">>,
      <<"a", "b", "c", "1", "2", "3">>,
      <<"a", "b", "c", "d", "e", "f">>,
      <<"1", "2", "3", "4", "5", "6">>,
      <<"a", " ", "b", "@", "c", ".", "d">>,
      <<"a", "_", "1">> }

FieldConfigs ==
    [required : BOOLEAN, type : {"text", "email"}, minlength : {NoAttr, 3},
     maxlength : {NoAttr, 5}, validate : {"", "username", "password", "cpf"}]

\* A field element: its attributes, its parent element, its value, its two
\* validation classes and the message of its last validation.
Field(config, parent, value) ==
    [required |-> config.required, type |-> config.type,
     minlength |-> config.minlength, maxlength |-> config.maxlength,
     validate |-> config.validate, parent |-> parent, value |-> value,
     isValidClass |-> FALSE, isInvalidClass |-> FALSE, lastMessage |-> ""]

\* The blur listener of field i: validateField(input)
Blur ==
    /\ \E i \in DOMAIN fields : SetPage(ValidateField(Page, i).page)
    /\ form' = form
    /\ lastSubmit' = [lastSubmit EXCEPT !.fresh = FALSE]
    /\ UNCHANGED notFormVars

\* One field with any combination of the attributes and any of the values.
InitField ==
    /\ \E config \in FieldConfigs, value \in FieldValues :
          fields = <<Field(config, 1, value)>>
    /\ feedbacks = <<NoFeedback>>
    /\ form = [dataLoading |-> FALSE, hasSubmitBtn |-> FALSE,
               submitBtn |-> [innerHTML |-> "", disabled |-> FALSE,
                              hasOriginalText |-> FALSE, originalText |-> ""],
               pending |-> {}]
    /\ lastValidate = [field |-> 0, isValid |-> TRUE, message |-> ""]
    /\ lastSubmit = [fresh |-> FALSE, prevented |-> FALSE, stopped |-> FALSE]
    /\ TimeIdle /\ DebounceIdle /\ ToastIdle /\ ModalIdle /\ ButtonIdle
    /\ EscIdle /\ VifIdle /\ UploadIdle

NextField == Blur

SpecField == InitField /\ [][NextField]_vars

FailingRules(f) == {k \in 1..5 : RuleFails(k, f)}

\* C3: the rules are evaluated in the order required, email, minimum length,
\* maximum length, custom validator; when several fail, the message handed
\* to updateFieldValidationState is that of the first failing rule; the field
\* is marked valid exactly when no rule fails.
FirstFailingRuleWins ==
    lastValidate.field # 0 =>
        LET f == fields[lastValidate.field] IN
        /\ lastValidate.isValid <=> FailingRules(f) = {}
        /\ f.isValidClass <=> FailingRules(f) = {}
        /\ FailingRules(f) # {} =>
              lastValidate.message = RuleMessage(SetMin(FailingRules(f)), f)

\* C4: a required field whose trimmed value is empty is invalid with the
\* required-field message, whatever its type, minlength, maxlength and
\* data-validate.
RequiredEmptyGetsRequiredMessage ==
    lastValidate.field # 0 =>
        LET f == fields[lastValidate.field] IN
        (f.required /\ Trim(f.value) = <<>>) =>
            /\ ~lastValidate.isValid
            /\ lastValidate.message = "Este campo é obrigatório"

-----------------------------------------------------------------------------
(* The form wired at DOMContentLoaded: setupFormValidation and, for a form  *)
(* with data-loading, the loading-state submit listener                     *)

FormValues ==
    { <<>>, <<"a", "b">> }

FormConfigs ==
    { [required |-> TRUE, type |-> "text", minlength |-> NoAttr,
       maxlength |-> NoAttr, validate |-> ""],
      [required |-> FALSE, type |-> "email", minlength |-> 3,
       maxlength |-> NoAttr, validate |-> ""] }

\* The input listener of field i: the user changed the value to v, and the
\* debounced validation of the field is (re)scheduled.  form.pending holds
\* the fields whose debounce timer is running.
InputEvent ==
    /\ \E i \in DOMAIN fields, v \in FormValues :
          /\ v # fields[i].value
          /\ fields' = [fields EXCEPT ![i].value = v]
          /\ form' = [form EXCEPT !.pending = @ \cup {i}]
    /\ lastSubmit' = [lastSubmit EXCEPT !.fresh = FALSE]
    /\ UNCHANGED <<feedbacks, lastValidate, notFormVars>>

\* The debounce timer of field i runs out: validateField(input)
DebouncedValidate ==
    /\ \E i \in form.pending :
          /\ SetPage(ValidateField(Page, i).page)
          /\ form' = [form EXCEPT !.pending = @ \ {i}]
    /\ lastSubmit' = [lastSubmit EXCEPT !.fresh = FALSE]
    /\ UNCHANGED notFormVars

\* The submit listener of a data-loading form skipped for an event whose
\* propagation was stopped.
DataLoadingListenerUnlessStopped(f, event) ==
    IF f.dataLoading /\ f.hasSubmitBtn /\ ~event.stopped
    THEN [f EXCEPT !.submitBtn = SetButtonLoading(@, TRUE, "Processando...")]
    ELSE f

\* The submit listener added to each form[data-loading]: it looks at nothing
\* of the event and puts the form's button[type="submit"], when there is
\* one, into the loading state.
DataLoadingListener(f, event) ==
    IF f.dataLoading /\ f.hasSubmitBtn
    THEN [f EXCEPT !.submitBtn = SetButtonLoading(@, TRUE, "Processando...")]
    ELSE f

\* A submit event on the form (the submit button, Enter in a field, or
\* requestSubmit).  The listeners run in the order they were added:
\* setupFormValidation's, which cancels the event when validateForm fails,
\* then (stopPropagation does not keep the other listeners of the same
\* element from running) the data-loading one.
Submit ==
    /\ LET r == ValidateForm(Page)
           event == [prevented |-> ~r.ok, stopped |-> ~r.ok] IN
        /\ SetPage(r.page)
        /\ lastSubmit' = [fresh |-> TRUE, prevented |-> event.prevented,
                          stopped |-> event.stopped]
        /\ form' = DataLoadingListener(form, event)
    /\ UNCHANGED notFormVars

InitForm ==
    /\ \E configs \in [1..NumFields -> FormConfigs],
          values \in [1..NumFields -> FormValues],
          shared \in BOOLEAN :
          fields = [i \in 1..NumFields |->
                       Field(configs[i], IF shared THEN 1 ELSE i, values[i])]
    /\ feedbacks = [p \in 1..NumFields |-> NoFeedback]
    /\ \E dataLoading \in BOOLEAN, hasSubmitBtn \in BOOLEAN :
          form = [dataLoading |-> dataLoading, hasSubmitBtn |-> hasSubmitBtn,
                  submitBtn |-> [innerHTML |-> IF hasSubmitBtn THEN "Enviar"
                                                ELSE "",
                                 disabled |-> FALSE,
                                 hasOriginalText |-> FALSE,
                                 originalText |-> ""],
                  pending |-> {}]
    /\ lastValidate = [field |-> 0, isValid |-> TRUE, message |-> ""]
    /\ lastSubmit = [fresh |-> FALSE, prevented |-> FALSE, stopped |-> FALSE]
    /\ TimeIdle /\ DebounceIdle /\ ToastIdle /\ ModalIdle /\ ButtonIdle
    /\ EscIdle /\ VifIdle /\ UploadIdle

NextForm == InputEvent \/ DebouncedValidate \/ Blur \/ Submit

SpecForm == InitForm /\ [][NextForm]_vars

\* C6: a submit event validates every field of the form and is cancelled
\* (preventDefault and stopPropagation) exactly when some field is invalid;
\* afterwards every invalid field is marked invalid and every valid field
\* valid.
SubmitValidatesEveryField ==
    lastSubmit.fresh =>
        /\ lastSubmit.prevented <=>
              \E i \in DOMAIN fields : FailingRules(fields[i]) # {}
        /\ lastSubmit.stopped <=> lastSubmit.prevented
        /\ \A i \in DOMAIN fields :
              /\ fields[i].isInvalidClass <=> FailingRules(fields[i]) # {}
              /\ fields[i].isValidClass <=> FailingRules(fields[i]) = {}

\* An empty required field and a valid field were submitted: the submission
\* was cancelled, the first is marked invalid, the second valid.
SubmitOneInvalidWitness ==
    /\ lastSubmit.fresh /\ lastSubmit.prevented /\ lastSubmit.stopped
    /\ \E i, j \in DOMAIN fields :
          /\ i < j
          /\ fields[i].required /\ fields[i].value = <<>>
          /\ fields[i].isInvalidClass /\ ~fields[i].isValidClass
          /\ fields[j].required /\ fields[j].value = <<"a", "b">>
          /\ fields[j].isValidClass /\ ~fields[j].isInvalidClass

\* Field i has been validated: updateFieldValidationState always leaves one
\* of the two classes on the field.
Validated(i) == fields[i].isValidClass \/ fields[i].isInvalidClass

\* C11: after any sequence of validateField and validateForm calls, every
\* validated field carries exactly one of the classes is-valid and
\* is-invalid, and the feedback element of the field exists and is displayed,
\* with the field's latest failure message, exactly when the field is
\* invalid; also when several fields share a parent element.
FeedbackFollowsItsField ==
    \A i \in DOMAIN fields :
        Validated(i) =>
            LET fb == feedbacks[fields[i].parent] IN
            /\ fields[i].isValidClass # fields[i].isInvalidClass
            /\ fb.present
            /\ fb.shown <=> fields[i].isInvalidClass
            /\ fields[i].isInvalidClass => fb.text = fields[i].lastMessage

\* The loading state of the submit button of a data-loading form
ButtonLoading(b) ==
    b.disabled /\ b.innerHTML = SpinnerMarkup("Processando...")

SubmitPutsButtonLoading ==
    (lastSubmit.fresh /\ form.dataLoading /\ form.hasSubmitBtn) =>
        ButtonLoading(form.submitBtn)

LoadingButtonStaysLoading ==
    ButtonLoading(form.submitBtn) => ButtonLoading(form'.submitBtn)

\* C12: on a form with data-loading that has a submit button, every submit
\* event, one cancelled by the validation listener included, leaves the
\* button disabled with the spinner markup, and no later step (blur, input,
\* debounced validation, another submit) takes the button out of that state.
CancelledSubmitLeavesButtonLoading ==
    []SubmitPutsButtonLoading /\ [][LoadingButtonStaysLoading]_vars

\* A submit was cancelled, the user has since corrected the fields so that
\* all are valid, and the submit button is still disabled with the spinner.
ButtonStuckAfterCancelledSubmitWitness ==
    /\ form.dataLoading /\ form.hasSubmitBtn
    /\ lastSubmit.prevented /\ ~lastSubmit.fresh
    /\ \A i \in DOMAIN fields :
          FailingRules(fields[i]) = {} /\ fields[i].isValidClass
    /\ ButtonLoading(form.submitBtn)

====
